---- MODULE Spec2Model ----
(***************************************************************************)
(* State machine of spotup's main.py: the snapshot map kept in             *)
(* snapshot_map.json (SpotifyClient.load_map / atomic_save), the diff of   *)
(* the library listing against it and the retrying executor                *)
(* (SpotdlClient.download / process_playlist).                             *)
(*                                                                         *)
(* One behaviour is a succession of runs of the program (processes) over   *)
(* one state file and one unchanged remote library.  Every collaborator    *)
(* answer (probe, listing, fetch, storage) is a nondeterministic input.    *)
(***************************************************************************)
EXTENDS Integers, Sequences, FiniteSets, TLC

\* ---------------------------------------------------------------- bounds
NumNames == 3          \* playlist names are 1..NumNames
MaxRuns == 2           \* runs of the program in one behaviour
MaxItems == 3          \* items of a listing, where listings of any shape are drawn

\* ------------------------------------------------------ program constants
MAX_RETRIES == 5
BackoffBase == 180
MegaCount == 300

Names == 1..NumNames
\* snapshot ids are opaque: the library's current one and an older one
CurrentRev == "s1"
Revs == {"s1", "s0"}
Username == "me"
Markers == {"429", "83000", "50000"}

\* ------------------------------------------------------------ JSON values
EmptyMap == [n \in {} |-> 0]

\* data[name] = entry
Put(map, n, e) == [k \in (DOMAIN map) \cup {n} |-> IF k = n THEN e ELSE map[k]]

\* Track counts of the library: playlist 1 is a "mega" playlist (> 300).
CountOf(n) == IF n = 1 THEN 400 ELSE 10 * n

\* One item of a listing page, as the catalog returns it.
Item(n, owner, r) ==
    [name |-> n, owner |-> owner, url |-> n, snapshot_id |-> r, total |-> CountOf(n)]

\* The record get_all_playlists builds of an item.
Entry(item) ==
    [url |-> item.url, snapshot_id |-> item.snapshot_id, track_count |-> item.total]

\* A record of the file that carries no snapshot_id (hand-edited or foreign file).
NoIdRecord(n) == [url |-> n, track_count |-> CountOf(n)]

\* The file: absent, not parseable as JSON, or a JSON object.
AbsentFile == [kind |-> "absent", m |-> EmptyMap]
InvalidFile == [kind |-> "invalid", m |-> EmptyMap]
MapFile(m) == [kind |-> "map", m |-> m]

NoTemp == [kind |-> "none", m |-> EmptyMap]
EmptyTemp == [kind |-> "empty", m |-> EmptyMap]
PartialTemp == [kind |-> "partial", m |-> EmptyMap]
FullTemp(m) == [kind |-> "full", m |-> m]

\* The complete map a state file holds (none for an absent or unparseable file).
MapOf(d) == IF d.kind = "map" THEN d.m ELSE EmptyMap

\* _cached_map: None, or a loaded map
NoCache == [set |-> FALSE, m |-> EmptyMap]
Cached(m) == [set |-> TRUE, m |-> m]

VARIABLES
    listing,    \* the remote library: a sequence of pages of items
    disk,       \* snapshot_map.json
    tmp,        \* the temporary file of the commit in progress
    cache,      \* SpotifyClient._cached_map
    target,     \* SpotifyClient.target_snapshot_map
    queue,      \* download's queue (shuffled once option 0 is chosen)
    mode,       \* "none", "batch" (option 0) or "single" (option k)
    i,          \* position of the current item in queue
    attempt,    \* process_playlist's loop variable
    sleep,      \* seconds of the countdown in progress
    pc,         \* where the run is
    \* history of the run
    run,        \* number of the run
    disk0,      \* the file when the run began
    probe,      \* what sp.me() answered: "none", "clear", "rate_limited"
    listed,     \* the listing was requested in this run
    built,      \* the queue was built in this run
    fetched,    \* a fetch was attempted in this run
    signal,     \* a fetch of this run returned a hard-ban signal
    outcome,    \* per name, how process_playlist ended for it in this run
    prev        \* what the run before this one queued and committed, how it ended

vars == <<listing, disk, tmp, cache, target, queue, mode, i, attempt, sleep, pc,
          run, disk0, probe, listed, built, fetched, signal, outcome, prev>>

hist == <<run, disk0, prev>>

\* download returned; sys.exit(1); the catalog's exception or the diff's KeyError left
\* download; the process was killed; KeyboardInterrupt left download
Terminal == {"returned", "exited", "listing_error", "key_error", "killed", "interrupted"}
SavePcs == {"save", "write", "replace"}

\* ------------------------------------------------------- collaborators
\* An answer: a return, or an exception whose text holds some of the markers the
\* program looks for.
Responses ==
    {[raised |-> FALSE, msg |-> {}]} \cup {[raised |-> TRUE, msg |-> m] : m \in SUBSET Markers}

\* What the probe answered: rate limiting (a 429), or anything else.
ProbeAnswer(resp) ==
    IF resp.raised /\ "429" \in resp.msg THEN "rate_limited" ELSE "clear"

\* A fetch answered with a hard-ban signal: a 429 carrying 83000 or 50000.
HardBanSignal(resp) ==
    resp.raised /\ "429" \in resp.msg /\ ("83000" \in resp.msg \/ "50000" \in resp.msg)

\* ------------------------------------------------------- SpotifyClient
\* a probe that never reports the ban
CheckInitialRateLimit_Optimistic(resp) == TRUE

\* check_initial_rate_limit: resp is sp.me()'s answer
CheckInitialRateLimit(resp) ==
    IF ~resp.raised THEN TRUE
    ELSE IF "429" \in resp.msg THEN FALSE
    ELSE TRUE

\* load_map: <<returned map, _cached_map afterwards>>
LoadMap(c, d) ==
    IF c.set THEN [ret |-> c.m, cache |-> c]
    ELSE IF d.kind = "absent" THEN [ret |-> EmptyMap, cache |-> c]
    ELSE IF d.kind = "map" THEN [ret |-> d.m, cache |-> Cached(d.m)]
    ELSE [ret |-> EmptyMap, cache |-> c]

\* get_all_playlists: the pages in order, the items of a page in order
RECURSIVE FoldItems(_, _)
FoldItems(full_map, items) ==
    IF items = <<>> THEN full_map
    ELSE LET item == Head(items)
         IN FoldItems(IF item.owner = Username
                        THEN Put(full_map, item.name, Entry(item))
                        ELSE full_map,
                      Tail(items))

RECURSIVE FoldPages(_, _)
FoldPages(full_map, pages) ==
    IF pages = <<>> THEN full_map
    ELSE FoldPages(FoldItems(full_map, Head(pages)), Tail(pages))

\* a builder that reads the first page only
GetAllPlaylistsMap_FirstPage(pages) ==
    FoldPages(EmptyMap, IF pages = <<>> THEN <<>> ELSE <<Head(pages)>>)

GetAllPlaylistsMap(pages) == FoldPages(EmptyMap, pages)

\* ---------------------------------------------------------- the diff
WorkItem(n, obj) == [name |-> n, url |-> obj.url, count |-> obj.track_count]

\* local_map[n]["snapshot_id"] raises KeyError
DiffRaises(tmap, local) ==
    \E n \in DOMAIN tmap : n \in DOMAIN local /\ "snapshot_id" \notin DOMAIN local[n]

\* a diff that compares the whole record
Changed_WholeRecord(n, tmap, local) ==
    n \notin DOMAIN local \/ local[n] # tmap[n]

Changed(n, tmap, local) ==
    n \notin DOMAIN local \/ local[n].snapshot_id # tmap[n].snapshot_id

RECURSIVE QueueOver(_, _, _)
QueueOver(S, tmap, local) ==
    IF S = {} THEN <<>>
    ELSE LET n == CHOOSE x \in S : \A y \in S : x <= y
         IN (IF Changed(n, tmap, local) THEN <<WorkItem(n, tmap[n])>> ELSE <<>>)
            \o QueueOver(S \ {n}, tmap, local)

ComputeQueue(tmap, local) == QueueOver(DOMAIN tmap, tmap, local)

QueueNames(q) == {q[k].name : k \in 1..Len(q)}

\* random.shuffle
Shuffles(q) ==
    {s \in [1..Len(q) -> {q[k] : k \in 1..Len(q)}] :
        \A a, b \in 1..Len(q) : a # b => s[a] # s[b]}

\* a handler that knows 83000 only
Classify_Only83000(msg) ==
    IF "429" \in msg
      THEN IF "83000" \in msg THEN "hardban" ELSE "ratelimit"
      ELSE "other"

\* process_playlist's handler: what it makes of an exception's text
Classify(msg) ==
    IF "429" \in msg
      THEN IF "83000" \in msg \/ "50000" \in msg THEN "hardban" ELSE "ratelimit"
      ELSE "other"

\* ------------------------------------------------------------- Init
\* A library: one page, the user's playlists in name order; revs gives each one's
\* snapshot id.
ListingOf(revs) ==
    LET RECURSIVE Items(_)
        Items(T) == IF T = {} THEN <<>>
                    ELSE LET n == CHOOSE x \in T : \A y \in T : x <= y
                         IN <<Item(n, Username, revs[n])>> \o Items(T \ {n})
    IN <<Items(DOMAIN revs)>>

\* The libraries: the playlists 1..k for every k (names are interchangeable).
Libraries == {1..k : k \in 0..NumNames}

\* What an earlier run stored under a name: the record of some snapshot of it.
StoredRecords(n) == {Entry(Item(n, Username, r)) : r \in Revs}

\* The files earlier runs leave.
StoredMaps ==
    UNION {{m \in [S -> UNION {StoredRecords(n) : n \in S}] :
               \A n \in S : m[n] \in StoredRecords(n)} : S \in SUBSET Names}

\* JSON objects of another shape: records without snapshot_id.
NoIdMaps == {[n \in S |-> NoIdRecord(n)] : S \in (SUBSET Names) \ {{}}}

NoOutcome == [n \in Names |-> "none"]
NoPrev == [end |-> "none", mode |-> "none", queued |-> {}, committed |-> {}]

Init ==
    /\ listing \in {ListingOf([n \in S |-> CurrentRev]) : S \in Libraries}
    /\ disk \in {AbsentFile, InvalidFile} \cup {MapFile(m) : m \in StoredMaps \cup NoIdMaps}
    /\ tmp = NoTemp
    /\ cache = NoCache
    /\ target = EmptyMap
    /\ queue = <<>>
    /\ mode = "none"
    /\ i = 0
    /\ attempt = 0
    /\ sleep = 0
    /\ pc = "start"
    /\ run = 1
    /\ disk0 = disk
    /\ probe = "none"
    /\ listed = FALSE
    /\ built = FALSE
    /\ fetched = FALSE
    /\ signal = FALSE
    /\ outcome = NoOutcome
    /\ prev = NoPrev

\* ------------------------------------------------------------ download
\* os.path.exists(BASE_PATH)
CheckBasePath ==
    /\ pc = "start"
    /\ \E exists \in BOOLEAN : pc' = IF exists THEN "probe" ELSE "returned"
    /\ UNCHANGED <<listing, disk, tmp, cache, target, queue, mode, i, attempt, sleep,
                   probe, listed, built, fetched, signal, outcome, hist>>

Probe ==
    /\ pc = "probe"
    /\ \E resp \in Responses :
          /\ probe' = ProbeAnswer(resp)
          /\ pc' = IF CheckInitialRateLimit(resp) THEN "listing" ELSE "returned"
    /\ UNCHANGED <<listing, disk, tmp, cache, target, queue, mode, i, attempt, sleep,
                   listed, built, fetched, signal, outcome, hist>>

\* target_snapshot_map = get_all_playlists()
GetAllPlaylists ==
    /\ pc = "listing"
    /\ listed' = TRUE
    /\ target' = GetAllPlaylistsMap(listing)
    /\ pc' = "diff"
    /\ UNCHANGED <<listing, disk, tmp, cache, queue, mode, i, attempt, sleep,
                   probe, built, fetched, signal, outcome, hist>>

\* a builder that stores what it had read when the catalog raised
ListingFails_Partial ==
    /\ pc = "listing"
    /\ listed' = TRUE
    /\ target' = GetAllPlaylistsMap(<<Head(listing)>>)
    /\ pc' = "listing_error"
    /\ UNCHANGED <<listing, disk, tmp, cache, queue, mode, i, attempt, sleep,
                   probe, built, fetched, signal, outcome, hist>>

\* the catalog raises on a page: the exception leaves download
ListingFails ==
    /\ pc = "listing"
    /\ listed' = TRUE
    /\ pc' = "listing_error"
    /\ UNCHANGED <<listing, disk, tmp, cache, target, queue, mode, i, attempt, sleep,
                   probe, built, fetched, signal, outcome, hist>>

\* local_map = load_map(); queue = [...]; if not queue: return
BuildQueue ==
    /\ pc = "diff"
    /\ LET l == LoadMap(cache, disk)
       IN /\ cache' = l.cache
          /\ IF DiffRaises(target, l.ret)
               THEN pc' = "key_error" /\ queue' = queue /\ built' = built
               ELSE /\ queue' = ComputeQueue(target, l.ret)
                    /\ built' = TRUE
                    /\ pc' = IF queue' = <<>> THEN "returned" ELSE "menu"
    /\ UNCHANGED <<listing, disk, tmp, target, mode, i, attempt, sleep,
                   probe, listed, fetched, signal, outcome, hist>>

\* int(input()) raises ValueError
MenuInvalid ==
    /\ pc = "menu"
    /\ pc' = "returned"
    /\ UNCHANGED <<listing, disk, tmp, cache, target, queue, mode, i, attempt, sleep,
                   probe, listed, built, fetched, signal, outcome, hist>>

\* a number outside 0..len(queue)
MenuOutOfRange ==
    /\ pc = "menu"
    /\ \E choice \in {-1, Len(queue) + 1} : pc' = "returned"
    /\ UNCHANGED <<listing, disk, tmp, cache, target, queue, mode, i, attempt, sleep,
                   probe, listed, built, fetched, signal, outcome, hist>>

\* choice == 0: shuffle, then the first item's stagger countdown
MenuAll ==
    /\ pc = "menu"
    /\ queue' \in Shuffles(queue)
    /\ mode' = "batch"
    /\ i' = 1
    /\ pc' = "stagger"
    /\ UNCHANGED <<listing, disk, tmp, cache, target, attempt, sleep,
                   probe, listed, built, fetched, signal, outcome, hist>>

\* 1 <= choice <= len(queue): process_playlist(queue[choice - 1])
MenuOne ==
    /\ pc = "menu"
    /\ \E choice \in 1..Len(queue) : i' = choice
    /\ mode' = "single"
    /\ attempt' = 0
    /\ pc' = "attempt"
    /\ UNCHANGED <<listing, disk, tmp, cache, target, queue, sleep,
                   probe, listed, built, fetched, signal, outcome, hist>>

\* visual_countdown(random.uniform(5, dynamic_delay)); process_playlist(item) begins
Stagger ==
    /\ pc = "stagger"
    /\ attempt' = 0
    /\ pc' = "attempt"
    /\ UNCHANGED <<listing, disk, tmp, cache, target, queue, mode, i, sleep,
                   probe, listed, built, fetched, signal, outcome, hist>>

\* ---------------------------------------------------- process_playlist
name == queue[i].name

\* download's loop after process_playlist returned (and after the cooling countdown)
NextItem ==
    IF mode = "batch" /\ i < Len(queue)
      THEN pc' = "stagger" /\ i' = i + 1
      ELSE pc' = "returned" /\ i' = i

\* process_playlist returns; res is what the history records of it
Return(res) ==
    /\ outcome' = [outcome EXCEPT ![name] = res]
    /\ attempt' = 0
    /\ sleep' = 0
    /\ IF mode = "batch" /\ queue[i].count > MegaCount
         THEN pc' = "cool" /\ i' = i
         ELSE NextItem

\* search and download_songs return
FetchSuccess ==
    /\ pc = "attempt"
    /\ fetched' = TRUE
    /\ pc' = "save"
    /\ UNCHANGED <<listing, disk, tmp, cache, target, queue, mode, i, attempt, sleep,
                   probe, listed, built, signal, outcome, hist>>

\* a 429 without 83000 or 50000: the backoff countdown begins
FetchRateLimited ==
    /\ pc = "attempt"
    /\ \E resp \in Responses :
          /\ resp.raised
          /\ Classify(resp.msg) = "ratelimit"
          /\ signal' = (signal \/ HardBanSignal(resp))
    /\ fetched' = TRUE
    /\ sleep' = BackoffBase * (attempt + 1)
    /\ pc' = "backoff"
    /\ UNCHANGED <<listing, disk, tmp, cache, target, queue, mode, i, attempt,
                   probe, listed, built, outcome, hist>>

\* sys.exit(1)
FetchHardBan ==
    /\ pc = "attempt"
    /\ \E resp \in Responses :
          /\ resp.raised
          /\ Classify(resp.msg) = "hardban"
          /\ signal' = (signal \/ HardBanSignal(resp))
    /\ fetched' = TRUE
    /\ pc' = "exited"
    /\ UNCHANGED <<listing, disk, tmp, cache, target, queue, mode, i, attempt, sleep,
                   probe, listed, built, outcome, hist>>

\* an error of one item that ends the whole loop
FetchOtherError_Abort ==
    /\ pc = "attempt"
    /\ \E resp \in Responses :
          /\ resp.raised
          /\ Classify(resp.msg) = "other"
          /\ signal' = (signal \/ HardBanSignal(resp))
    /\ fetched' = TRUE
    /\ outcome' = [outcome EXCEPT ![name] = "error"]
    /\ pc' = "returned"
    /\ UNCHANGED <<listing, disk, tmp, cache, target, queue, mode, i, attempt, sleep,
                   probe, listed, built, hist>>

\* a handler that records the failed item in the file
FetchOtherError_Marking ==
    /\ pc = "attempt"
    /\ \E resp \in Responses :
          /\ resp.raised
          /\ Classify(resp.msg) = "other"
          /\ signal' = (signal \/ HardBanSignal(resp))
    /\ fetched' = TRUE
    /\ disk' = MapFile(Put(MapOf(disk), name, target[name]))
    /\ Return("error")
    /\ UNCHANGED <<listing, tmp, cache, target, queue, mode,
                   probe, listed, built, hist>>

\* any other exception: return False
FetchOtherError ==
    /\ pc = "attempt"
    /\ \E resp \in Responses :
          /\ resp.raised
          /\ Classify(resp.msg) = "other"
          /\ signal' = (signal \/ HardBanSignal(resp))
    /\ fetched' = TRUE
    /\ Return("error")
    /\ UNCHANGED <<listing, disk, tmp, cache, target, queue, mode,
                   probe, listed, built, hist>>

\* a loop that retries for ever
Backoff_Unbounded ==
    /\ pc = "backoff"
    /\ attempt' = attempt
    /\ sleep' = 0
    /\ pc' = "attempt"
    /\ UNCHANGED <<i, outcome>>
    /\ UNCHANGED <<listing, disk, tmp, cache, target, queue, mode,
                   probe, listed, built, fetched, signal, hist>>

\* the countdown ends; the loop goes on or is exhausted (process_playlist returns None)
Backoff ==
    /\ pc = "backoff"
    /\ IF attempt + 1 < MAX_RETRIES
         THEN /\ attempt' = attempt + 1
              /\ sleep' = 0
              /\ pc' = "attempt"
              /\ UNCHANGED <<i, outcome>>
         ELSE Return("exhausted")
    /\ UNCHANGED <<listing, disk, tmp, cache, target, queue, mode,
                   probe, listed, built, fetched, signal, hist>>

\* the post-mega cooling countdown ends
Cool ==
    /\ pc = "cool"
    /\ NextItem
    /\ UNCHANGED <<listing, disk, tmp, cache, target, queue, mode, attempt, sleep,
                   probe, listed, built, fetched, signal, outcome, hist>>

\* ---------------------------------------------------------- atomic_save
\* a commit that starts from an empty map instead of load_map()
SaveBegin_Fresh ==
    /\ pc = "save"
    /\ cache' = Cached(Put(EmptyMap, name, target[name]))
    /\ tmp' = EmptyTemp
    /\ pc' = "write"
    /\ UNCHANGED <<listing, disk, target, queue, mode, i, attempt, sleep,
                   probe, listed, built, fetched, signal, outcome, hist>>

\* entry = target_snapshot_map.get(name); data = load_map(); data[name] = entry;
\* _cached_map = data; mkstemp
SaveBegin ==
    /\ pc = "save"
    /\ cache' = Cached(Put(LoadMap(cache, disk).ret, name, target[name]))
    /\ tmp' = EmptyTemp
    /\ pc' = "write"
    /\ UNCHANGED <<listing, disk, target, queue, mode, i, attempt, sleep,
                   probe, listed, built, fetched, signal, outcome, hist>>

\* mkstemp raises, outside atomic_save's try: process_playlist's handler returns False
SaveMkstempFails ==
    /\ pc = "save"
    /\ cache' = Cached(Put(LoadMap(cache, disk).ret, name, target[name]))
    /\ Return("persist_error")
    /\ UNCHANGED <<listing, disk, tmp, target, queue, mode,
                   probe, listed, built, fetched, signal, hist>>

\* json.dump(data, tmp)
SaveWrite ==
    /\ pc = "write"
    /\ tmp' = FullTemp(cache.m)
    /\ pc' = "replace"
    /\ UNCHANGED <<listing, disk, cache, target, queue, mode, i, attempt, sleep,
                   probe, listed, built, fetched, signal, outcome, hist>>

\* json.dump raises midway: the bare except removes the temporary file, SUCCESS is logged
SaveWriteFails ==
    /\ pc = "write"
    /\ tmp' = NoTemp
    /\ Return("unsaved")
    /\ UNCHANGED <<listing, disk, cache, target, queue, mode,
                   probe, listed, built, fetched, signal, hist>>

\* os.replace(temp, MAP_FILE); SUCCESS is logged, return True
SaveReplace ==
    /\ pc = "replace"
    /\ disk' = MapFile(tmp.m)
    /\ tmp' = NoTemp
    /\ Return("saved")
    /\ UNCHANGED <<listing, cache, target, queue, mode,
                   probe, listed, built, fetched, signal, hist>>

\* os.replace raises: the bare except removes the temporary file, SUCCESS is logged
SaveReplaceFails ==
    /\ pc = "replace"
    /\ tmp' = NoTemp
    /\ Return("unsaved")
    /\ UNCHANGED <<listing, disk, cache, target, queue, mode,
                   probe, listed, built, fetched, signal, hist>>

\* ------------------------------------------------------ the environment
\* The process dies (kill, power loss) anywhere; while json.dump is writing, the
\* temporary file is left partial.
Kill ==
    /\ pc \notin Terminal
    /\ pc' = "killed"
    /\ tmp' = IF pc = "write" THEN PartialTemp ELSE tmp
    /\ UNCHANGED <<listing, disk, cache, target, queue, mode, i, attempt, sleep,
                   probe, listed, built, fetched, signal, outcome, hist>>

\* The user interrupts the run at work on its queue, outside atomic_save's try:
\* KeyboardInterrupt is no Exception, process_playlist's handler does not catch it,
\* and it leaves download.
Interrupt ==
    /\ pc \in {"stagger", "attempt", "backoff", "cool", "save"}
    /\ pc' = "interrupted"
    /\ UNCHANGED <<listing, disk, tmp, cache, target, queue, mode, i, attempt, sleep,
                   probe, listed, built, fetched, signal, outcome, hist>>

\* The user interrupts while json.dump writes or before os.replace: the bare except
\* catches KeyboardInterrupt, removes the temporary file, and atomic_save returns;
\* SUCCESS is logged, return True
SaveInterrupted ==
    /\ pc \in {"write", "replace"}
    /\ tmp' = NoTemp
    /\ Return("cancelled")
    /\ UNCHANGED <<listing, disk, cache, target, queue, mode,
                   probe, listed, built, fetched, signal, hist>>

\* The items whose own commit was written (its os.replace completed).
Committed == {n \in Names : outcome[n] = "saved"}

\* The program is started again: SpotdlClient() is constructed afresh.
StartRun ==
    /\ pc \in Terminal
    /\ run < MaxRuns
    /\ run' = run + 1
    /\ prev' = [end |-> pc, mode |-> mode, queued |-> QueueNames(queue),
                committed |-> Committed]
    /\ disk0' = disk
    /\ tmp' = NoTemp
    /\ cache' = NoCache
    /\ target' = EmptyMap
    /\ queue' = <<>>
    /\ mode' = "none"
    /\ i' = 0
    /\ attempt' = 0
    /\ sleep' = 0
    /\ pc' = "start"
    /\ probe' = "none"
    /\ listed' = FALSE
    /\ built' = FALSE
    /\ fetched' = FALSE
    /\ signal' = FALSE
    /\ outcome' = NoOutcome
    /\ UNCHANGED <<listing, disk>>

Next ==
    \/ CheckBasePath
    \/ Probe
    \/ GetAllPlaylists
    \/ ListingFails
    \/ BuildQueue
    \/ MenuInvalid
    \/ MenuOutOfRange
    \/ MenuAll
    \/ MenuOne
    \/ Stagger
    \/ FetchSuccess
    \/ FetchRateLimited
    \/ FetchHardBan
    \/ FetchOtherError
    \/ Backoff
    \/ Cool
    \/ SaveBegin
    \/ SaveMkstempFails
    \/ SaveWrite
    \/ SaveWriteFails
    \/ SaveReplace
    \/ SaveReplaceFails
    \/ Kill

\* one run of the program
Spec == Init /\ [][Next]_vars

\* runs in succession
NextRuns == Next \/ StartRun

\* a first installation: no state file yet
InitRuns == Init /\ disk = AbsentFile

SpecRuns == InitRuns /\ [][NextRuns]_vars

\* one run on a first installation in which a step that can be taken is taken:
\* collaborators answer and countdowns end
SpecLive == InitRuns /\ [][Next]_vars /\ WF_vars(Next)

\* one run that the user may interrupt
NextCancel == Next \/ Interrupt \/ SaveInterrupted

SpecCancel == Init /\ [][NextCancel]_vars

\* ------------------------------------------------------ the diff alone
\* Records a file may hold of a playlist whose url or track count has since changed.
DiffRecords(n) ==
    [url : {n, n + NumNames}, snapshot_id : Revs, track_count : {CountOf(n), CountOf(n) + 1}]

DiffMaps ==
    UNION {{m \in [S -> UNION {DiffRecords(n) : n \in S}] :
               \A n \in S : m[n] \in DiffRecords(n)} : S \in SUBSET Names}

\* download at its diff, for every library and every previous map
InitDiff ==
    /\ listing \in {ListingOf(revs) : revs \in UNION {[S -> Revs] : S \in SUBSET Names}}
    /\ disk \in {AbsentFile} \cup {MapFile(m) : m \in DiffMaps}
    /\ tmp = NoTemp
    /\ cache = NoCache
    /\ target = GetAllPlaylistsMap(listing)
    /\ queue = <<>>
    /\ mode = "none"
    /\ i = 0
    /\ attempt = 0
    /\ sleep = 0
    /\ pc = "diff"
    /\ run = 1
    /\ disk0 = disk
    /\ probe = "clear"
    /\ listed = TRUE
    /\ built = FALSE
    /\ fetched = FALSE
    /\ signal = FALSE
    /\ outcome = NoOutcome
    /\ prev = NoPrev

SpecDiff == InitDiff /\ [][BuildQueue]_vars

\* --------------------------------------------------- the listing alone
\* The owners of the playlists the catalog lists: the user and somebody else.
Owners == {Username, "them"}

\* What the catalog can list: any playlist of any owner under any snapshot id.
ListedItems == {Item(n, o, r) : n \in Names, o \in Owners, r \in Revs}

\* The sequences of at most MaxItems listed items.
FlatListings == UNION {[1..k -> ListedItems] : k \in 0..MaxItems}

\* The listing flat as the catalog pages it when it ends a page after each of the
\* positions of cuts (a page of an empty listing is empty).
RECURSIVE Paged(_, _)
Paged(flat, cuts) ==
    IF cuts = {} THEN <<flat>>
    ELSE LET c == CHOOSE x \in cuts : \A y \in cuts : y <= x
         IN Paged(SubSeq(flat, 1, c), cuts \ {c}) \o <<SubSeq(flat, c + 1, Len(flat))>>

\* download about to request the listing, for every listing
InitListing ==
    /\ \E flat \in FlatListings :
          \E cuts \in SUBSET (1..(Len(flat) - 1)) : listing = Paged(flat, cuts)
    /\ disk = AbsentFile
    /\ tmp = NoTemp
    /\ cache = NoCache
    /\ target = EmptyMap
    /\ queue = <<>>
    /\ mode = "none"
    /\ i = 0
    /\ attempt = 0
    /\ sleep = 0
    /\ pc = "listing"
    /\ run = 1
    /\ disk0 = disk
    /\ probe = "clear"
    /\ listed = FALSE
    /\ built = FALSE
    /\ fetched = FALSE
    /\ signal = FALSE
    /\ outcome = NoOutcome
    /\ prev = NoPrev

NextListing == GetAllPlaylists \/ ListingFails

SpecListing == InitListing /\ [][NextListing]_vars

\* ================================================================ claims
\* The file holds the current-snapshot record of n.
OnDisk(n) == disk.kind = "map" /\ n \in DOMAIN disk.m /\ disk.m[n] = target[n]

\* The items process_playlist reported SUCCESS for (it returned True).
Succeeded == {n \in Names : outcome[n] \in {"saved", "unsaved", "cancelled"}}

\* The items whose fetch returned.
FetchedOk ==
    {n \in Names : outcome[n] \in {"saved", "unsaved", "cancelled", "persist_error"}}

\* The file that began as d0 once exactly the items of C are committed.
DiskAfter(d0, C) ==
    IF C = {} THEN d0
    ELSE MapFile([k \in (DOMAIN MapOf(d0)) \cup C |->
                     IF k \in C THEN target[k] ELSE MapOf(d0)[k]])

\* C1: during a commit of name the state file is, at every step (a kill included),
\* either the complete map it held when the step began or that map with the single
\* key name set to its entry; it is never truncated or partial.
C1_CommitAtomic ==
    [][(pc \in SavePcs) =>
          (disk' = disk \/ disk' = MapFile(Put(MapOf(disk), name, target[name])))]_vars

\* C2: every item process_playlist reported SUCCESS for has its current-snapshot
\* record in the state file.
C2_SuccessDurable == \A n \in Succeeded : OnDisk(n)

\* C3: whenever no write is in progress, the state file is the file of the start of
\* the run with exactly the entries of the items committed so far replaced by their
\* current-snapshot records; no other key is changed or removed.
C3_Accumulating == pc \notin SavePcs => disk = DiskAfter(disk0, Committed)

\* C4: the queue holds a name exactly when it is in the current snapshot and is
\* absent from the previous map or stored there under another snapshot_id, once
\* each; so a map diffed against itself queues nothing, a map diffed against the
\* empty map queues all of it, and a name of the previous map alone is never queued.
C4_DiffRule ==
    built =>
        LET previous == MapOf(disk0)
        IN /\ QueueNames(queue) =
                 {n \in DOMAIN target :
                     n \notin DOMAIN previous
                     \/ previous[n].snapshot_id # target[n].snapshot_id}
           /\ Len(queue) = Cardinality(QueueNames(queue))
           /\ \A k \in 1..Len(queue) : queue[k] = WorkItem(queue[k].name, target[queue[k].name])
           /\ (previous = target => queue = <<>>)
           /\ (previous = EmptyMap => Len(queue) = Cardinality(DOMAIN target))
           /\ QueueNames(queue) \cap ((DOMAIN previous) \ DOMAIN target) = {}

\* C4 witness: a playlist stored under its current snapshot_id but another url and
\* track count is not queued, while another playlist is.
C4_Witness ==
    /\ built
    /\ queue # <<>>
    /\ \E n \in (DOMAIN target) \cap DOMAIN MapOf(disk0) :
          /\ MapOf(disk0)[n].snapshot_id = target[n].snapshot_id
          /\ MapOf(disk0)[n].url # target[n].url
          /\ MapOf(disk0)[n].track_count # target[n].track_count
          /\ n \notin QueueNames(queue)


\* C5: a run that follows a run aborted by a hard ban or killed after it committed
\* some items, the library unchanged, queues none of the items that run committed
\* and every item that run queued and did not commit.
C5_Resume ==
    (run > 1 /\ built /\ prev.end \in {"exited", "killed"} /\ prev.committed # {}) =>
        /\ QueueNames(queue) \cap prev.committed = {}
        /\ (prev.queued \ prev.committed) \subseteq QueueNames(queue)

\* C6 as stated: a run that follows a completed process-all run, the library
\* unchanged, builds an empty queue.
C6_Original ==
    (run > 1 /\ built /\ prev.end = "returned" /\ prev.mode = "batch") => queue = <<>>

\* C6: a run that follows a completed process-all run which committed every item of
\* its queue, the library unchanged, builds an empty queue.
C6_Idempotent ==
    (run > 1 /\ built /\ prev.end = "returned" /\ prev.mode = "batch"
       /\ prev.queued \subseteq prev.committed) => queue = <<>>

\* C6 witness: the second run after a process-all run that committed two items or more.
C6_Witness ==
    /\ run > 1
    /\ built
    /\ prev.end = "returned"
    /\ prev.mode = "batch"
    /\ Cardinality(prev.queued) >= 2
    /\ prev.queued \subseteq prev.committed
    /\ queue = <<>>

C8_HardBanAbort ==
    /\ [](signal => pc = "exited" /\ sleep = 0)
    /\ [][(~signal /\ signal') =>
            /\ pc' = "exited"
            /\ disk' = disk /\ tmp' = tmp /\ cache' = cache /\ outcome' = outcome
            /\ sleep' = 0]_vars
    /\ [][(signal /\ signal') =>
            UNCHANGED <<disk, tmp, cache, pc, i, attempt, sleep, outcome>>]_vars

\* C8 witness: the signal arrives on a retry, after a commit and with items left.
C8_Witness ==
    /\ signal
    /\ pc = "exited"
    /\ mode = "batch"
    /\ attempt > 0
    /\ i < Len(queue)
    /\ Committed # {}
    /\ disk = DiskAfter(disk0, Committed)

\* C9: when the probe answers with rate limiting the run has returned, without a
\* listing request, a queue, a fetch or any change to the state file and the cached
\* map; and a listing request, a queue or a fetch only ever follows a probe that
\* answered otherwise.
C9_ProbeShortCircuit ==
    /\ probe = "rate_limited" =>
          /\ pc = "returned"
          /\ ~listed /\ ~built /\ ~fetched
          /\ queue = <<>> /\ target = EmptyMap
          /\ disk = disk0 /\ tmp = NoTemp /\ cache = NoCache
    /\ (listed \/ built \/ fetched) => probe = "clear"

\* C9 witness: the probe reports rate limiting while the library holds work.
C9_Witness ==
    /\ probe = "rate_limited"
    /\ pc = "returned"
    /\ disk.kind = "map"
    /\ ComputeQueue(GetAllPlaylistsMap(listing), disk.m) # <<>>

\* A state file that is absent, unparseable, or no map of records carrying a
\* snapshot_id.
Corrupt(d) ==
    \/ d.kind \in {"absent", "invalid"}
    \/ \E n \in DOMAIN d.m : "snapshot_id" \notin DOMAIN d.m[n]

\* C10: with a corrupt state file the run does not end in the diff's KeyError, and
\* the queue built holds every playlist of the current snapshot.
C10_CorruptResync ==
    Corrupt(disk0) =>
        /\ pc # "key_error"
        /\ built => QueueNames(queue) = DOMAIN target

\* C11: process_playlist makes at most MAX_RETRIES fetch attempts on an item and
\* then returns, so every run terminates; an item rate-limited on all MAX_RETRIES
\* attempts is left without its current-snapshot record in the cached map and in the
\* file, and a process-all run goes on with the next item.
C11_BoundedRetries ==
    /\ [](pc \in {"attempt", "backoff"} => attempt + 1 <= MAX_RETRIES)
    /\ <>(pc \in Terminal)
    /\ [](\A n \in Names : outcome[n] = "exhausted" =>
              /\ ~OnDisk(n)
              /\ ~(n \in DOMAIN cache.m /\ cache.m[n] = target[n]))
    /\ [][(pc = "backoff" /\ pc' # "attempt" /\ pc' # "killed") =>
            /\ attempt + 1 = MAX_RETRIES
            /\ outcome' = [outcome EXCEPT ![name] = "exhausted"]
            /\ ((mode = "batch" /\ i < Len(queue)) => pc' \in {"cool", "stagger"})]_vars

\* C11 witness: a process-all run has ended in which an item was rate-limited on all
\* its attempts and an item after it was committed.
C11_Witness ==
    /\ mode = "batch"
    /\ pc = "returned"
    /\ \E a, b \in 1..Len(queue) :
          /\ a < b
          /\ outcome[queue[a].name] = "exhausted"
          /\ outcome[queue[b].name] = "saved"

\* The places <<page, index>> of the listing that hold a playlist of the user named n.
OwnedAt(n) ==
    {pk \in UNION {{<<p, k>> : k \in 1..Len(listing[p])} : p \in 1..Len(listing)} :
        listing[pk[1]][pk[2]].name = n /\ listing[pk[1]][pk[2]].owner = Username}

\* pk comes before ql in page order
Before(pk, ql) == pk[1] < ql[1] \/ (pk[1] = ql[1] /\ pk[2] < ql[2])

\* C12: the snapshot get_all_playlists returns has as keys exactly the names of the
\* playlists of the user listed on any page, up to the last one; a playlist of
\* another owner contributes nothing; and the record of a name is built of the last
\* of the user's playlists listed under that name, in page order.
C12_ListingResult ==
    pc = "diff" =>
        /\ DOMAIN target = {n \in Names : OwnedAt(n) # {}}
        /\ \A n \in DOMAIN target :
              \E pk \in OwnedAt(n) :
                 /\ \A ql \in OwnedAt(n) : ql = pk \/ Before(ql, pk)
                 /\ target[n] = Entry(listing[pk[1]][pk[2]])

\* C12 witness: a name of the user listed on two pages under two snapshot ids, the
\* later one kept, and a playlist of another owner that is not in the snapshot.
C12_Witness ==
    /\ pc = "diff"
    /\ Len(listing) >= 2
    /\ \E n \in DOMAIN target :
          /\ \E pk, ql \in OwnedAt(n) :
                /\ pk[1] < ql[1]
                /\ listing[pk[1]][pk[2]].snapshot_id # listing[ql[1]][ql[2]].snapshot_id
                /\ target[n] = Entry(listing[ql[1]][ql[2]])
          /\ \E p \in 1..Len(listing) : \E k \in 1..Len(listing[p]) :
                /\ listing[p][k].owner # Username
                /\ listing[p][k].name \notin DOMAIN target

\* C13: when the catalog raises during the pagination the run ends with that error
\* leaving download: the target snapshot is still empty, no queue was built, no
\* fetch was attempted, and the state file, the temporary file and the cached map
\* are as they were when the run began; nothing follows in that run.
C13_ListingFailure ==
    /\ [](pc = "listing_error" =>
            /\ listed
            /\ target = EmptyMap
            /\ queue = <<>> /\ ~built /\ mode = "none"
            /\ ~fetched /\ outcome = NoOutcome
            /\ disk = disk0 /\ tmp = NoTemp /\ cache = NoCache)
    /\ [][pc = "listing_error" =>
            UNCHANGED <<pc, disk, tmp, cache, target, queue, fetched, outcome>>]_vars

\* C13 witness: the catalog raises while the library holds playlists that the state
\* file, a map, lacks.
C13_Witness ==
    /\ pc = "listing_error"
    /\ DOMAIN GetAllPlaylistsMap(listing) = Names
    /\ disk.kind = "map"
    /\ DOMAIN disk.m # Names

\* What the file d holds under the key n: one record, or nothing.
RecordsOf(d, n) == {MapOf(d)[k] : k \in (DOMAIN MapOf(d)) \cap {n}}

\* C14: in a process-all run, when the stagger countdown or a fetch attempt of an
\* item is under way no write is pending and the record of every earlier item whose
\* commit was written is in the file; and what the file holds under a key changes
\* only in the commit of the item of that name, to its current-snapshot record (no
\* record is written later, or together with another item's).
C14_CommitOrder ==
    /\ []((mode = "batch" /\ pc \in {"stagger", "attempt", "backoff"}) =>
            /\ tmp = NoTemp
            /\ \A j \in 1..(i - 1) :
                  /\ outcome[queue[j].name] # "none"
                  /\ outcome[queue[j].name] = "saved" => OnDisk(queue[j].name))
    /\ [][\A n \in Names :
            RecordsOf(disk', n) # RecordsOf(disk, n) =>
                /\ pc = "replace"
                /\ name = n
                /\ RecordsOf(disk', n) = {target[n]}]_vars

\* The two ends of an item: its fetch succeeded and its record was committed to the
\* file; or a failure was reported for it (an error, or rate limits to exhaustion).
ItemCommitted(n) == outcome[n] = "saved" /\ OnDisk(n)
ItemAbandoned(n) == outcome[n] \in {"error", "persist_error", "exhausted"}

\* C15: every item process_playlist has returned for is Committed or Abandoned, and
\* an item becomes Committed only in the commit that follows its successful fetch.
C15_ItemOutcome ==
    /\ [](\A n \in Names : outcome[n] # "none" => (ItemCommitted(n) \/ ItemAbandoned(n)))
    /\ [][\A n \in Names : (~ItemCommitted(n) /\ ItemCommitted(n)') =>
            (pc = "replace" /\ name = n)]_vars

\* C16: a rate limit on the k-th attempt on an item (attempt = k - 1) starts a
\* countdown of BackoffBase * k seconds on that item, and when a backoff countdown
\* ends (the process not being killed) the next attempt on the same item follows.
C16_BackoffRetry ==
    /\ [][(pc = "attempt" /\ pc' = "backoff") =>
            (sleep' = BackoffBase * (attempt + 1) /\ i' = i /\ attempt' = attempt)]_vars
    /\ [][(pc = "backoff" /\ pc' # "killed") =>
            (pc' = "attempt" /\ i' = i /\ attempt' = attempt + 1)]_vars

\* C17: when a call of atomic_save ends (it returns, or mkstemp raises), the write
\* completed or not, the cached map is the map the state file holds.
C17_CacheIsDisk ==
    [][(pc \in SavePcs /\ pc' \notin SavePcs /\ pc' # "killed") =>
          (cache'.set /\ disk'.kind = "map" /\ cache'.m = disk'.m)]_vars

\* C18: the step in which the write of a commit fails leaves the state file as it
\* was; the item stays without its current-snapshot record in the file for the rest
\* of the run; and the next run, the library unchanged, queues every item the run
\* before it queued and did not commit.
C18_PersistFailure ==
    /\ [][(pc \in SavePcs /\ outcome'[name] \in {"unsaved", "persist_error"}) =>
            disk' = disk]_vars
    /\ [](\A n \in Names : outcome[n] \in {"unsaved", "persist_error"} => ~OnDisk(n))
    /\ []((run > 1 /\ built) => (prev.queued \ prev.committed) \subseteq QueueNames(queue))

\* What load_map returns: the content of the cached map, read lazily.
Loaded(c, d) == LoadMap(c, d).ret

\* The steps of the probe, of the listing, of the diff and of a fetch attempt that
\* fails leave the file and the content of the cached map as they are; all but the
\* assignment of the listing's result leave the target snapshot as it is.
C19_Frame ==
    [][(pc \in {"start", "probe", "listing", "diff", "menu", "stagger", "attempt",
                "backoff", "cool"}) =>
          /\ disk' = disk
          /\ Loaded(cache', disk') = Loaded(cache, disk)
          /\ pc # "listing" => target' = target]_vars

\* C19 as stated: the file is written once for every item whose fetch succeeded (every
\* such item process_playlist has returned for has had its write) and at no other
\* time, and the steps named leave file, cached map and target snapshot unchanged.
C19_Original ==
    /\ [](FetchedOk \subseteq Committed)
    /\ [][disk' # disk =>
            (pc = "replace" /\ outcome[name] = "none" /\ outcome'[name] = "saved")]_vars
    /\ C19_Frame

\* C19: the file is written only by the os.replace of the commit of an item whose
\* fetch succeeded, at most once for an item (once if the write completes, not at all
\* if it fails), so a file that differs from the file of the start of the run has a
\* committed item; and the steps named leave file, cached map and target snapshot
\* unchanged.
C19_WritesOnSuccess ==
    /\ [][disk' # disk =>
            (pc = "replace" /\ outcome[name] = "none" /\ outcome'[name] = "saved")]_vars
    /\ [](Committed \subseteq FetchedOk)
    /\ [](disk # disk0 => Committed # {})
    /\ [](Committed = {} => disk = disk0)
    /\ C19_Frame

\* C19 witness: a process-all run has ended in which one item was committed, the
\* commit of another failed after its fetch succeeded, and a third ended in an error.
C19_Witness ==
    /\ mode = "batch"
    /\ pc = "returned"
    /\ Cardinality(Committed) = 1
    /\ \E n \in Names : outcome[n] = "persist_error"
    /\ \E n \in Names : outcome[n] = "error"

\* C20: an interrupt that arrives during the write of a commit leaves the state file
\* as it was, a complete map, and ends the run: once an item's write was interrupted
\* the run has stopped, and no stagger, fetch or commit of another item follows.
C20_Cancellation ==
    /\ [][(pc \in {"write", "replace"} /\ outcome'[name] = "cancelled") =>
            disk' = disk]_vars
    /\ []((\E n \in Names : outcome[n] = "cancelled") => pc \in Terminal)

====
